---- MODULE Spec2Model ----
(***************************************************************************)
(* Model of deepcpg's chunked store reader (deepcpg/data/hdf.py) and of    *)
(* the data preparation script (scripts/dcpg_data.py).                     *)
(*                                                                         *)
(* Python arrays are 0-based; sequences here are 1-based, so the Python    *)
(* slice a[s:e] is SubSeq(a, s + 1, e).  nb_sample = 0 stands for "no cap" *)
(* (None, which reader() turns into np.inf).                               *)
(***************************************************************************)
EXTENDS Integers, Sequences, FiniteSets, TLC

\* ------------------------------------------------------------------ bounds
MaxFiles == 2
MaxRows == 2
MaxBatch == 2
MaxCap == 3
MaxPos == 3
MaxSites == 2
MaxNum == 3
MaxSeq == 3
MaxWlen == 5

\* ---------------------------------------------------------------- constants
\* dat.CPG_NAN, the missing-value sentinel (dcpg_data.py:98)
CPG_NAN == -1

\* seq_index, the smallest position (dcpg_data.py:60)
seq_index == 1

\* ------------------------------------------------------------------ state
VARIABLES
    \* reader() arguments (hdf.py:67) and who consumes the generator
    input_files,   \* row count of each configured container, in list order
    batch_size,
    nb_sample,     \* 0: no cap
    shuffle,
    loop,
    consumer,      \* "read": read() -> read_from(); "iter": a plain for loop
    \* reader() locals
    data_files,    \* container ids, in visiting order
    sel_files,     \* _data_files of the prefix selection
    sel_idx,       \* position of the prefix selection loop in data_files
    file_idx,
    nb_seen,
    batch,
    data_file,     \* name -> the (possibly permuted) array of the open file
    data_batch,    \* the batch handed over at the yield
    handles,       \* container ids of the h5.File objects not yet closed
    pc,
    \* read_from() locals
    rf_pc,
    rf_nb_seen,
    data,          \* name -> list of the batches appended so far
    result,        \* what read_from() returns
    \* history of the current pass over the container list
    opened,        \* container id -> times opened by the main loop
    emitted,       \* container id -> source rows yielded, in order
    total,         \* running sum of the lengths of the yielded batches
    \* map_values() (dcpg_data.py:98)
    values,
    pos,
    target_pos,
    target_values, \* what map_values() returns, or the exception it raises
    \* the coverage filter of App.main (dcpg_data.py:356-372)
    cpg_mat,       \* chromo_outputs['cpg_mat']: one row per site, one column per cell
    cov_runs,      \* one record per run of the filter over cpg_mat
    \* extract_seq_windows() (dcpg_data.py:60)
    seq,
    wpos,          \* its argument pos
    wlen,
    cpg_sites,
    seq_wins,      \* what it returns, or the exception it raises
    \* App.main (dcpg_data.py:275)
    opts,
    main_pc,
    main_err,      \* the exception that ended main, if any
    reads,         \* the inputs read so far, in order
    chromos,       \* pos_table.chromo.unique()
    chromo_idx,    \* position of the chromosome loop in chromos
    chromo_pos,
    chromo_outputs,
    tables,        \* the rows every listed chromosome has in the input tables
    chromo_dna,    \* per position of chromo_pos: does the reference hold CG there
    chunk,
    chunk_file,    \* name of the chunk file being written
    files          \* the output directory: file name -> [open, data]

readerVars == <<input_files, batch_size, nb_sample, shuffle, loop, consumer,
                data_files, sel_files, sel_idx, file_idx, nb_seen, batch,
                data_file, data_batch, handles, pc, rf_pc, rf_nb_seen, data,
                result, opened, emitted, total>>

alignVars == <<values, pos, target_pos, target_values>>

covVars == <<cpg_mat, cov_runs>>

winVars == <<seq, wpos, wlen, cpg_sites, seq_wins>>

mainVars == <<opts, main_pc, main_err, reads, chromos, tables, chromo_idx, chromo_pos,
              chromo_outputs, chromo_dna, chunk, chunk_file, files>>

scriptVars == <<alignVars, covVars, winVars, mainVars>>

vars == <<readerVars, scriptVars>>

\* ---------------------------------------------------------------- helpers
Min(a, b) == IF a <= b THEN a ELSE b

Max(a, b) == IF a >= b THEN a ELSE b

RECURSIVE Flatten(_)
Flatten(ss) == IF ss = <<>> THEN <<>> ELSE Head(ss) \o Flatten(Tail(ss))

\* np.random.shuffle: every permutation of 1..n is a possible outcome
PermsOf(n) == {p \in [1..n -> 1..n] : \A i, j \in 1..n : p[i] = p[j] => i = j}

\* names[0] is the key the sample counts are measured on
Names == <<"cpg", "dna">>

NameSet == {Names[i] : i \in 1..Len(Names)}

\* The array stored under `name` in container f: one cell per row.
Stored(f, name) == [r \in 1..input_files[f] |-> <<name, f, r>>]

RowOf(cell) == cell[3]

RowsOf(cells) == [j \in 1..Len(cells) |-> RowOf(cells[j])]

\* value[:len(idx)][idx], hdf.py:110
TakeRowsPerKey(value, idx) == [j \in 1..Len(idx) |-> value[Len(idx) - idx[j] + 1]]

TakeRows(value, idx) == [j \in 1..Len(idx) |-> value[idx[j]]]

\* hdf.py:99-110: the arrays of all names, permuted by the one idx
LoadFilePerKey(f, idx) ==
    [name \in NameSet |->
        IF name = Names[1] THEN TakeRows(Stored(f, name), idx)
        ELSE TakeRowsPerKey(Stored(f, name), idx)]

LoadFile(f, idx) == [name \in NameSet |-> TakeRows(Stored(f, name), idx)]

\* hdf.py:112, Python 3 true division
NbBatchFloor(nb_sample_file, bs) == nb_sample_file \div bs

NbBatch(nb_sample_file, bs) == (nb_sample_file + bs - 1) \div bs

\* hdf.py:115, with nb_sample = np.inf when there is no cap
NbReadNoCap(cap, seen, bs) == bs

NbRead(cap, seen, bs) == IF cap = 0 THEN bs ELSE Min(cap - seen, bs)

\* hdf.py:116
BatchEnd(nb_sample_file, batch_start, nb_read) ==
    Min(nb_sample_file, batch_start + nb_read)

\* hdf.py:127 and hdf.py:86: nb_seen >= nb_sample
CapReached(seen, cap) == cap # 0 /\ seen >= cap

\* hdf.py:132-134: the two assertions after a container is closed
AssertsHold(seen, cap, idx, nfiles) ==
    /\ (cap # 0 => seen <= cap)
    /\ (cap # 0 /\ cap = seen => idx = nfiles)

\* hdf.py:135-140: what follows the exhaustion of the container list
AfterLastNoLoop(lp) == "done"

AfterLast(lp) == IF lp THEN "top" ELSE "done"

NoFile == [name \in NameSet |-> <<>>]

ZeroCount == [f \in 1..Len(input_files) |-> 0]

NoRows == [f \in 1..Len(input_files) |-> <<>>]


\* What a call gave: status "ok" with the returned value, or the name of the
\* exception raised ("none": not called yet).
Outcome(status, value) == [status |-> status, value |-> value]

Raised(exception) == Outcome(exception, <<>>)

\* ------------------------------------------------------- parts not running
ReaderIdle ==
    /\ input_files = <<>> /\ batch_size = 1 /\ nb_sample = 0
    /\ shuffle = FALSE /\ loop = FALSE /\ consumer = "none"
    /\ data_files = <<>> /\ sel_files = <<>> /\ sel_idx = 1
    /\ file_idx = 0 /\ nb_seen = 0 /\ batch = 0
    /\ data_file = NoFile /\ data_batch = NoFile /\ handles = <<>>
    /\ pc = "idle" /\ rf_pc = "idle" /\ rf_nb_seen = 0
    /\ data = NoFile /\ result = NoFile
    /\ opened = <<>> /\ emitted = <<>> /\ total = 0

AlignIdle ==
    values = <<>> /\ pos = <<>> /\ target_pos = <<>> /\ target_values = Outcome("idle", <<>>)

CovIdle == cpg_mat = <<>> /\ cov_runs = <<>>

WinIdle ==
    seq = <<>> /\ wpos = <<>> /\ wlen = 1 /\ cpg_sites = FALSE /\ seq_wins = Outcome("idle", <<>>)

NoError == [type |-> "none", stage |-> "none", msg |-> ""]

MainIdle ==
    /\ opts = <<>> /\ main_pc = "idle" /\ main_err = NoError /\ reads = <<>>
    /\ chromos = <<>> /\ tables = <<>> /\ chromo_idx = 0 /\ chromo_pos = <<>>
    /\ chromo_outputs = <<>> /\ chromo_dna = <<>> /\ chunk = 0
    /\ chunk_file = <<>> /\ files = <<>>

\* ------------------------------------------------------------------- init
ReaderInit ==
    /\ input_files \in UNION {[1..n -> 0..MaxRows] : n \in 1..MaxFiles}
    /\ batch_size \in 1..MaxBatch
    /\ nb_sample \in 0..MaxCap
    /\ shuffle \in BOOLEAN
    /\ consumer \in {"read", "iter"}
    /\ loop \in (IF consumer = "read" THEN {FALSE} ELSE BOOLEAN)  \* hdf.py:180
    /\ data_files = [i \in 1..Len(input_files) |-> i]
    /\ sel_files = <<>>
    /\ sel_idx = 1
    /\ file_idx = 0
    /\ nb_seen = 0
    /\ batch = 0
    /\ data_file = NoFile
    /\ data_batch = NoFile
    /\ handles = <<>>
    /\ pc = IF nb_sample # 0 THEN "sel_open" ELSE "top"
    /\ rf_pc = "next"
    /\ rf_nb_seen = 0
    /\ data = NoFile
    /\ result = NoFile
    /\ opened = ZeroCount
    /\ emitted = NoRows
    /\ total = 0

\* --------------------------------------------------------------- reader()
cfgVars == <<input_files, batch_size, nb_sample, shuffle, loop, consumer>>

rfVars == <<rf_nb_seen, data, result>>

histVars == <<opened, emitted, total>>

\* The generator runs only while its consumer waits in next().
Running == rf_pc = "next"

\* hdf.py:81-82: the prefix selection opens the next container
SelectOpen ==
    /\ Running /\ pc = "sel_open"
    /\ handles' = Append(handles, data_files[sel_idx])
    /\ pc' = "sel_close"
    /\ UNCHANGED <<scriptVars, cfgVars, rfVars, histVars, data_files, sel_files, sel_idx,
                   file_idx, nb_seen, batch, data_file, data_batch, rf_pc>>

\* hdf.py:83-93: count its rows, close it, keep it; stop at the cap
SelectClose ==
    /\ Running /\ pc = "sel_close"
    /\ LET f == data_files[sel_idx]
           seen == nb_seen + input_files[f]
           kept == Append(sel_files, f)
           stop == CapReached(seen, nb_sample) \/ sel_idx = Len(data_files)
       IN /\ handles' = SubSeq(handles, 1, Len(handles) - 1)
          /\ sel_files' = kept
          /\ IF stop
             THEN /\ data_files' = kept
                  /\ nb_seen' = 0
                  /\ pc' = "top"
                  /\ UNCHANGED sel_idx
             ELSE /\ nb_seen' = seen
                  /\ sel_idx' = sel_idx + 1
                  /\ pc' = "sel_open"
                  /\ UNCHANGED data_files
    /\ UNCHANGED <<scriptVars, cfgVars, rfVars, histVars, file_idx, batch, data_file,
                   data_batch, rf_pc>>

\* hdf.py:95-110: shuffle the list at its start, open the container, load
\* (and permute) its arrays
OpenFile ==
    /\ Running /\ pc = "top"
    /\ \E order \in PermsOf(Len(data_files)) :
          /\ (~(shuffle /\ file_idx = 0) => order = [i \in 1..Len(data_files) |-> i])
          /\ data_files' = [i \in 1..Len(data_files) |-> data_files[order[i]]]
    /\ LET f == data_files'[file_idx + 1]
       IN /\ handles' = Append(handles, f)
          /\ opened' = [opened EXCEPT ![f] = @ + 1]
          /\ \E idx \in PermsOf(input_files[f]) :
                /\ (~shuffle => idx = [i \in 1..input_files[f] |-> i])
                /\ data_file' = LoadFile(f, idx)
    /\ batch' = 0
    /\ pc' = "batch"
    /\ UNCHANGED <<scriptVars, cfgVars, rfVars, sel_files, sel_idx, file_idx, nb_seen,
                   data_batch, rf_pc, emitted, total>>

\* hdf.py:113-125: cut the next batch and yield it
NextBatch ==
    /\ Running /\ pc = "batch"
    /\ LET f == data_files[file_idx + 1]
           nb_sample_file == Len(data_file[Names[1]])
           batch_start == batch * batch_size
           nb_read == NbRead(nb_sample, nb_seen, batch_size)
           batch_end == BatchEnd(nb_sample_file, batch_start, nb_read)
           _batch_size == batch_end - batch_start
       IN IF batch < NbBatch(nb_sample_file, batch_size) /\ _batch_size # 0
          THEN /\ nb_seen' = nb_seen + _batch_size
               /\ data_batch' = [name \in NameSet |->
                                   SubSeq(data_file[name], batch_start + 1, batch_end)]
               /\ emitted' = [emitted EXCEPT ![f] = @ \o RowsOf(data_batch'[Names[1]])]
               /\ total' = total + _batch_size
               /\ pc' = "yield"
               /\ rf_pc' = "body"
          ELSE /\ pc' = "close"
               /\ UNCHANGED <<nb_seen, data_batch, emitted, total, rf_pc>>
    /\ UNCHANGED <<scriptVars, cfgVars, rfVars, data_files, sel_files, sel_idx, file_idx,
                   batch, data_file, handles, opened>>

\* hdf.py:127-128: resumed after the yield
Resume ==
    /\ Running /\ pc = "yield"
    /\ IF CapReached(nb_seen, nb_sample)
       THEN pc' = "close" /\ UNCHANGED batch
       ELSE pc' = "batch" /\ batch' = batch + 1
    /\ UNCHANGED <<scriptVars, cfgVars, rfVars, histVars, data_files, sel_files, sel_idx,
                   file_idx, nb_seen, data_file, data_batch, handles, rf_pc>>

\* hdf.py:130-140: close the container, check, move on / restart / stop
CloseFile ==
    /\ Running /\ pc = "close"
    /\ handles' = SubSeq(handles, 1, Len(handles) - 1)
    /\ data_file' = NoFile
    /\ IF ~AssertsHold(nb_seen, nb_sample, file_idx + 1, Len(data_files))
       THEN /\ pc' = "error"
            /\ rf_pc' = "raised"
            /\ file_idx' = file_idx + 1
            /\ UNCHANGED <<nb_seen, histVars>>
       ELSE IF file_idx + 1 = Len(data_files)
       THEN /\ pc' = AfterLast(loop)
            /\ IF pc' = "top"
               THEN /\ file_idx' = 0
                    /\ nb_seen' = 0
                    /\ opened' = ZeroCount
                    /\ emitted' = NoRows
                    /\ total' = 0
                    /\ UNCHANGED rf_pc
               ELSE /\ file_idx' = file_idx + 1
                    /\ rf_pc' = "stack"
                    /\ UNCHANGED <<nb_seen, histVars>>
       ELSE /\ pc' = "top"
            /\ file_idx' = file_idx + 1
            /\ UNCHANGED <<nb_seen, histVars, rf_pc>>
    /\ UNCHANGED <<scriptVars, cfgVars, rfVars, data_files, sel_files, sel_idx, batch,
                   data_batch>>

\* ------------------------------------------------------------ read_from()
genVars == <<data_files, sel_files, sel_idx, file_idx, nb_seen, batch,
             data_file, data_batch, handles>>

\* hdf.py:156-165: the body of the for loop over the batches
ReadFromBody ==
    /\ consumer = "read" /\ rf_pc = "body"
    /\ data' = [name \in NameSet |-> Append(data[name], data_batch[name])]
    /\ rf_nb_seen' = rf_nb_seen + Len(data_batch[Names[1]])
    /\ rf_pc' = IF CapReached(rf_nb_seen', nb_sample) THEN "stack" ELSE "next"
    /\ UNCHANGED <<scriptVars, cfgVars, genVars, histVars, pc, result>>

\* value[:nb_sample], hdf.py:170
TruncateNone(value, cap) == value

Truncate(value, cap) == IF cap # 0 THEN SubSeq(value, 1, Min(cap, Len(value))) ELSE value

\* hdf.py:167-175: stack the batches, truncate to the cap, return.  The
\* generator is dropped with read()'s frame; when it is suspended at its
\* yield nothing after the yield runs any more.
ReadFromReturn ==
    /\ consumer = "read" /\ rf_pc = "stack"
    /\ result' = [name \in NameSet |-> Truncate(Flatten(data[name]), nb_sample)]
    /\ rf_pc' = "returned"
    /\ pc' = IF pc = "yield" THEN "dropped" ELSE pc
    /\ UNCHANGED <<scriptVars, cfgVars, genVars, histVars, rf_nb_seen, data>>

\* A plain `for batch in reader(...)` loop: take the batch, ask for the next;
\* when the generator stops, so does the loop.
IterBody ==
    /\ consumer = "iter" /\ rf_pc \in {"body", "stack"}
    /\ rf_pc' = IF rf_pc = "body" THEN "next" ELSE "returned"
    /\ UNCHANGED <<scriptVars, cfgVars, genVars, histVars, pc, rf_nb_seen, data, result>>

\* ------------------------------------------------------------------- spec
Init == ReaderInit /\ AlignIdle /\ CovIdle /\ WinIdle /\ MainIdle

Next ==
    \/ SelectOpen
    \/ SelectClose
    \/ OpenFile
    \/ NextBatch
    \/ Resume
    \/ CloseFile
    \/ ReadFromBody
    \/ ReadFromReturn
    \/ IterBody

Spec == Init /\ [][Next]_vars

\* next(gen) always runs the generator to its next yield, and the for loop
\* always asks again: weak fairness of every step.
LoopInit == Init /\ loop /\ nb_sample = 0 /\ consumer = "iter"

LoopNext ==
    \/ OpenFile
    \/ NextBatch
    \/ Resume
    \/ CloseFile
    \/ IterBody

LoopSpec == LoopInit /\ [][LoopNext]_vars /\ WF_vars(LoopNext)

\* ----------------------------------------------------------------- claims
RECURSIVE SumRows(_)
SumRows(sizes) == IF sizes = <<>> THEN 0 ELSE Head(sizes) + SumRows(Tail(sizes))

Files == 1..Len(input_files)

Identity(n) == [i \in 1..n |-> i]

IsPermutation(rows, n) ==
    /\ Len(rows) = n
    /\ \A r \in 1..n : \E j \in 1..n : rows[j] = r

Stopped == pc \in {"done", "error", "dropped"}

\* C1: with loop off, a cap C >= 1 and N >= C rows in the containers, the
\* running sum of the yielded batch lengths never exceeds C, it is exactly C
\* once the generator has stopped, and read() returns exactly C rows per key.
C1_CapExact ==
    (~loop /\ nb_sample >= 1 /\ SumRows(input_files) >= nb_sample) =>
        /\ total <= nb_sample
        /\ (Stopped => total = nb_sample)
        /\ (rf_pc \in {"stack", "returned"} => total = nb_sample)
        /\ (consumer = "read" /\ rf_pc = "returned" =>
                \A name \in NameSet : Len(result[name]) = nb_sample)

\* read() returned C rows and the last batch was cut short by the cap, in the
\* middle of a container
C1_Witness ==
    /\ ~loop /\ consumer = "read" /\ rf_pc = "returned"
    /\ nb_sample >= 1 /\ SumRows(input_files) > nb_sample
    /\ Len(result[Names[1]]) = nb_sample
    /\ Len(data_batch[Names[1]]) \in 1..(batch_size - 1)
    /\ \E f \in Files : Len(emitted[f]) \in 1..(input_files[f] - 1)

\* C2: every container handle is closed on every exit path, at most one is
\* open at a time, and none is open after read() has returned.
C2_HandlesClosed ==
    /\ Len(handles) <= 1
    /\ (pc \in {"done", "error"} => handles = <<>>)
    /\ (rf_pc \in {"returned", "raised"} => handles = <<>>)

PassOver == pc = "done" \/ (pc = "close" /\ file_idx + 1 = Len(data_files))

\* C3: without a cap one pass opens every configured container exactly once
\* and emits every row of it exactly once (in stored order without shuffle,
\* as a permutation with it); the batches are cut sequentially, are never
\* empty nor longer than batch_size, only the last one of a container may be
\* shorter, and with loop off the generator stops after the pass.
C3_OnePass ==
    nb_sample = 0 =>
        /\ pc # "error"
        /\ {data_files[i] : i \in 1..Len(data_files)} = Files
        /\ \A f \in Files :
              /\ opened[f] <= 1
              /\ Len(emitted[f]) <= input_files[f]
              /\ \A i, j \in 1..Len(emitted[f]) : emitted[f][i] = emitted[f][j] => i = j
              /\ (~shuffle => emitted[f] = Identity(Len(emitted[f])))
              /\ (PassOver => opened[f] = 1 /\ IsPermutation(emitted[f], input_files[f]))
        /\ (pc \in {"batch", "yield", "close"} =>
              LET f == data_files[file_idx + 1]
              IN  /\ handles = <<f>>
                  /\ (pc # "close" =>
                        emitted[f] = RowsOf(SubSeq(data_file[Names[1]], 1, Len(emitted[f])))))
        /\ (pc = "yield" =>
              LET f == data_files[file_idx + 1]
                  n == Len(data_batch[Names[1]])
              IN  /\ n \in 1..batch_size
                  /\ (n < batch_size => Len(emitted[f]) = input_files[f]))
        /\ (pc = "done" => ~loop /\ file_idx = Len(data_files))

\* a finished shuffled pass over two containers, one of them read in two
\* batches and out of stored order
C3_Witness ==
    /\ nb_sample = 0 /\ ~loop /\ shuffle /\ pc = "done"
    /\ Len(input_files) = 2
    /\ data_files = <<2, 1>>
    /\ \E f \in Files :
          /\ input_files[f] > batch_size
          /\ emitted[f] # Identity(input_files[f])

HasRows == \E f \in Files : input_files[f] > 0

\* C4 (amended): with loop on, no cap and at least one row in some container,
\* the generator never stops, every request for a batch is answered, and at
\* the end of the list it restarts at the first container with the counter
\* at zero, over the same set of containers.
C4_LoopForever ==
    /\ [](pc \notin {"done", "error"})
    /\ []((HasRows /\ rf_pc = "next") => <>(rf_pc = "body"))
    /\ []({data_files[i] : i \in 1..Len(data_files)} = Files)
    /\ [][(pc = "close" /\ file_idx + 1 = Len(data_files))
            => (pc' = "top" /\ file_idx' = 0 /\ nb_seen' = 0)]_vars

\* C4 as claimed: for every non-empty container list every request for a
\* batch is answered.
C4_EveryRequestAnswered == [](rf_pc = "next" => <>(rf_pc = "body"))

\* restarted at the first container after a pass that yielded batches
C4_Witness ==
    /\ loop /\ nb_sample = 0 /\ pc = "top" /\ file_idx = 0 /\ nb_seen = 0
    /\ Len(input_files) = 2
    /\ data_batch[Names[1]] # <<>>

\* C5: with shuffle on, row j of every key of a batch comes from the same
\* source row of the container, for all keys and all j.
C5_SharedPermutation ==
    shuffle =>
        \A n1, n2 \in NameSet :
            /\ RowsOf(data_file[n1]) = RowsOf(data_file[n2])
            /\ RowsOf(data_batch[n1]) = RowsOf(data_batch[n2])
            /\ \A j \in 1..Len(data_batch[n1]) : data_batch[n1][j][1] = n1

\* a yielded batch of two rows in other than stored order
C5_Witness ==
    /\ shuffle /\ pc = "yield"
    /\ Len(data_batch[Names[1]]) = 2
    /\ RowsOf(data_batch[Names[2]]) = <<2, 1>>

\* ------------------------------------------------------------ map_values()
Range(a) == {a[i] : i \in 1..Len(a)}

\* np.all(a == np.sort(a))
IsSorted(a) == \A i, j \in 1..Len(a) : i < j => a[i] <= a[j]

IsStrictlySorted(a) == \A i, j \in 1..Len(a) : i < j => a[i] < a[j]

\* np.in1d(a, b): which entries of a occur in b
In1d(a, b) == [i \in 1..Len(a) |-> a[i] \in Range(b)]

\* mask.nonzero()[0]: the (1-based) indices where the mask is true, ascending
RECURSIVE NonZero(_)
NonZero(mask) ==
    IF mask = <<>> THEN <<>>
    ELSE LET n == Len(mask)
             front == NonZero(SubSeq(mask, 1, n - 1))
         IN IF mask[n] THEN Append(front, n) ELSE front

\* a[mask]
Compress(a, mask) == LET idx == NonZero(mask) IN [k \in 1..Len(idx) |-> a[idx[k]]]

\* np.empty(n) filled with nan, dcpg_data.py:112-113
Filled(n, nan) == [i \in 1..n |-> nan]

\* target_values[idx] = values, dcpg_data.py:117
AssignFirst(tv, idx, vals) ==
    [i \in 1..Len(tv) |->
        IF \E k \in 1..Len(idx) : idx[k] = i THEN vals[1] ELSE tv[i]]

Assign(tv, idx, vals) ==
    [i \in 1..Len(tv) |->
        IF \E k \in 1..Len(idx) : idx[k] = i
        THEN vals[CHOOSE k \in 1..Len(idx) : idx[k] = i]
        ELSE tv[i]]

\* dcpg_data.py:98-118
MapValues(vals, ps, tps) ==
    IF ~(Len(vals) = Len(ps) /\ IsSorted(ps) /\ IsSorted(tps))
    THEN Raised("AssertionError")
    ELSE LET keep == In1d(ps, tps)
             ps2 == Compress(ps, keep)
             vals2 == Compress(vals, keep)
             idx == NonZero(In1d(tps, ps2))
         IN IF Len(idx) # Len(vals2) THEN Raised("AssertionError")
            ELSE IF [k \in 1..Len(idx) |-> tps[idx[k]]] # ps2 THEN Raised("AssertionError")
            ELSE Outcome("ok", Assign(Filled(Len(tps), CPG_NAN), idx, vals2))

SortedSeqs(n, strict) ==
    {a \in UNION {[1..k -> 1..MaxPos] : k \in 0..n} :
        IF strict THEN IsStrictlySorted(a) ELSE IsSorted(a)}

\* One sample's observations of a chromosome (cpg_table.pos, cpg_table.value,
\* dcpg_data.py:125-126) and the positions to map them to.
AlignInit ==
    /\ pos \in SortedSeqs(MaxPos, TRUE)
    /\ values \in [1..Len(pos) -> {0, 1}]
    /\ target_pos \in SortedSeqs(MaxPos, FALSE)
    /\ target_values = Outcome("none", <<>>)

CallMapValues ==
    /\ target_values.status = "none"
    /\ target_values' = MapValues(values, pos, target_pos)
    /\ UNCHANGED <<readerVars, covVars, winVars, mainVars, values, pos, target_pos>>

AlignStart == AlignInit /\ ReaderIdle /\ CovIdle /\ WinIdle /\ MainIdle

AlignNext == CallMapValues

AlignSpec == AlignStart /\ [][AlignNext]_vars

Returned(x) == x.status = "ok"

\* what the claim says of a returned vector tv
Aligned(tv) ==
    /\ Len(tv) = Len(target_pos)
    /\ \A i \in 1..Len(target_pos) :
          /\ (tv[i] = CPG_NAN <=> target_pos[i] \notin Range(pos))
          /\ \A k \in 1..Len(pos) : pos[k] = target_pos[i] => tv[i] = values[k]

\* C6 (amended): for sorted unique pos and sorted unique target_pos,
\* map_values returns a vector as long as target_pos that holds the sentinel
\* exactly at the target positions absent from pos and the paired value at
\* the others; values at positions absent from the target are dropped.
C6_MapValues ==
    (target_values.status \notin {"none", "idle"} /\ IsStrictlySorted(target_pos)) =>
        (Returned(target_values) /\ Aligned(target_values.value))

\* C6 as claimed: the same for every sorted target_pos.
C6_AnySortedTarget ==
    target_values.status \notin {"none", "idle"} =>
        (Returned(target_values) /\ Aligned(target_values.value))

\* a result with a sentinel and a mapped value, one source position dropped
C6_Witness ==
    /\ Returned(target_values)
    /\ Len(target_values.value) = 2
    /\ \E i \in 1..2 : target_values.value[i] = CPG_NAN
    /\ \E i \in 1..2 : target_values.value[i] = 1
    /\ \E k \in 1..Len(pos) : pos[k] \notin Range(target_pos)

\* ------------------------------------------------- coverage filter of main
\* The columns of cpg_mat: one per single-cell profile (dcpg_data.py:347).
Samples == <<"cellA", "cellB", "cellC">>

\* --min_cpg_cov is a float; here the ratio num/den of two naturals.
Ratio(num, den) == [num |-> num, den |-> den]

Less(a, b) == a.num * b.den < b.num * a.den

IsFraction(a) == a.num < a.den

\* the values --min_cpg_cov takes: counts 1, 2, .. and quarters
MinCovOptions == {Ratio(n, d) : n \in 1..MaxNum, d \in {1, 4}}

\* int(x) of a ratio x >= 0
IntCeil(num, den) == (num + den - 1) \div den

IntTrunc(num, den) == num \div den

\* round(x), half to even
RoundHalfEven(num, den) ==
    LET q == num \div den
        r == num % den
    IN IF 2 * r < den THEN q
       ELSE IF 2 * r > den THEN q + 1
       ELSE IF q % 2 = 0 THEN q ELSE q + 1

\* dcpg_data.py:357-361: a percentage becomes an absolute number
MinCovCeil(opt, nb_cell) ==
    IF IsFraction(opt)
    THEN Ratio(Max(IntCeil(nb_cell * opt.num, opt.den), 1), 1)
    ELSE opt

MinCov(opt, nb_cell) ==
    IF IsFraction(opt)
    THEN Ratio(Max(IntTrunc(nb_cell * opt.num, opt.den), 1), 1)
    ELSE opt

\* np.sum(row != CPG_NAN), dcpg_data.py:362
RECURSIVE NbObserved(_)
NbObserved(row) ==
    IF row = <<>> THEN 0
    ELSE (IF Head(row) # CPG_NAN THEN 1 ELSE 0) + NbObserved(Tail(row))

RECURSIVE SumSeq(_)
SumSeq(a) == IF a = <<>> THEN 0 ELSE Head(a) + SumSeq(Tail(a))

\* idx >= min_cpg_cov, dcpg_data.py:364
AtMost(count, min_cov) == count * min_cov.den <= min_cov.num

AtLeast(count, min_cov) == count * min_cov.den >= min_cov.num

\* dcpg_data.py:356-372: the keep mask, or the failed assertion of line 363
CoverageFilter(mat, opt) ==
    LET nb_cell == Len(mat[1])
        min_cpg_cov == MinCov(opt, nb_cell)
        idx == [i \in 1..Len(mat) |-> NbObserved(mat[i])]
    IN IF ~(SumSeq(idx) >= 1) THEN Raised("AssertionError")
       ELSE Outcome("ok", [i \in 1..Len(mat) |-> AtLeast(idx[i], min_cpg_cov)])

\* idx.sum() of the mask, dcpg_data.py:366
NbKept(mask) == Cardinality({i \in 1..Len(mask) : mask[i]})

CovInit ==
    /\ cpg_mat \in UNION {[1..n -> [1..c -> {0, 1, CPG_NAN}]] :
                            n \in 1..MaxSites, c \in 1..Len(Samples)}
    /\ cov_runs = <<>>

\* one run of main over the same profiles with --min_cpg_cov = opt
RunCoverageFilter ==
    /\ cpg_mat # <<>> /\ Len(cov_runs) < 2
    /\ \E opt \in MinCovOptions :
          cov_runs' = Append(cov_runs,
                             [opt |-> opt,
                              min_cpg_cov |-> MinCov(opt, Len(cpg_mat[1])),
                              idx |-> CoverageFilter(cpg_mat, opt)])
    /\ UNCHANGED <<readerVars, alignVars, winVars, mainVars, cpg_mat>>

CovStart == CovInit /\ ReaderIdle /\ AlignIdle /\ WinIdle /\ MainIdle

CovNext == RunCoverageFilter

CovSpec == CovStart /\ [][CovNext]_vars

Runs == 1..Len(cov_runs)

NbCell == Len(cpg_mat[1])

\* t is the integer part of nb_cell * opt, but at least 1
IsFloorOrOne(t, opt, nb_cell) ==
    /\ t >= 1
    /\ t * opt.den <= Max(nb_cell * opt.num, opt.den)
    /\ (t > 1 => nb_cell * opt.num < (t + 1) * opt.den)
    /\ (t = 1 => nb_cell * opt.num < 2 * opt.den)

KeptIffCovered(run) ==
    run.idx.status = "ok" =>
        /\ Len(run.idx.value) = Len(cpg_mat)
        /\ \A i \in 1..Len(cpg_mat) :
              run.idx.value[i] <=>
                  NbObserved(cpg_mat[i]) * run.min_cpg_cov.den >= run.min_cpg_cov.num

\* C7 (amended): a fractional min_coverage f (0 < f < 1) becomes the absolute
\* threshold max(int(f * sample_count), 1), the product truncated, not
\* rounded; an absolute one (>= 1) is used as is; a position is kept iff its
\* row has at least that many non-sentinel entries.
C7_Threshold ==
    \A r \in Runs :
        LET run == cov_runs[r]
        IN /\ (IsFraction(run.opt) =>
                  /\ run.min_cpg_cov.den = 1
                  /\ IsFloorOrOne(run.min_cpg_cov.num, run.opt, NbCell))
           /\ (~IsFraction(run.opt) => run.min_cpg_cov = run.opt)
           /\ KeptIffCovered(run)

\* C7 as claimed: the fractional threshold is max(round(f * sample_count), 1).
C7_RoundedThreshold ==
    \A r \in Runs :
        LET run == cov_runs[r]
        IN /\ (IsFraction(run.opt) =>
                  run.min_cpg_cov =
                      Ratio(Max(RoundHalfEven(NbCell * run.opt.num, run.opt.den), 1), 1))
           /\ (~IsFraction(run.opt) => run.min_cpg_cov = run.opt)
           /\ KeptIffCovered(run)

\* 3/4 of three cells is the threshold 2: a site seen in two cells is kept,
\* one seen in one cell is dropped
C7_Witness ==
    \E r \in Runs :
        LET run == cov_runs[r]
        IN /\ run.opt = Ratio(3, 4) /\ NbCell = 3
           /\ run.min_cpg_cov = Ratio(2, 1)
           /\ run.idx.status = "ok"
           /\ Len(cpg_mat) = 2
           /\ NbObserved(cpg_mat[1]) = 2 /\ run.idx.value[1]
           /\ NbObserved(cpg_mat[2]) = 1 /\ ~run.idx.value[2]

Monotone(a, b) ==
    (a.idx.status = "ok" /\ b.idx.status = "ok" /\ Less(a.opt, b.opt)) =>
        NbKept(b.idx.value) <= NbKept(a.idx.value)

\* C8 (amended): for a fixed matrix and two thresholds a < b that are both
\* fractions below 1 or both absolute counts of at least 1, b keeps no more
\* positions than a.
C8_MonotoneSameKind ==
    \A i, j \in Runs :
        (IsFraction(cov_runs[i].opt) <=> IsFraction(cov_runs[j].opt)) =>
            Monotone(cov_runs[i], cov_runs[j])

\* C8 as claimed: the same for every pair a < b, also one that straddles 1.
C8_MonotoneAnyPair == \A i, j \in Runs : Monotone(cov_runs[i], cov_runs[j])

\* two fractions with different thresholds, the larger keeping fewer sites
C8_Witness ==
    \E i, j \in Runs :
        /\ IsFraction(cov_runs[i].opt) /\ IsFraction(cov_runs[j].opt)
        /\ Less(cov_runs[i].opt, cov_runs[j].opt)
        /\ cov_runs[i].idx.status = "ok" /\ cov_runs[j].idx.status = "ok"
        /\ NbKept(cov_runs[j].idx.value) < NbKept(cov_runs[i].idx.value)

\* --------------------------------------------------- extract_seq_windows()
\* the symbols of a reference sequence: the bases, the unknown base N, and
\* a lower-case (soft-masked) base
Alphabet == {"A", "C", "G", "T", "N", "c"}

\* str.upper(), dcpg_data.py:75
UpperChar(ch) == IF ch = "c" THEN "C" ELSE ch

Upper(str) == [i \in 1..Len(str) |-> UpperChar(str[i])]

\* dna.CHAR_TO_INT: C is 3 and G is 2 (dcpg_data.py:93-94), N is the code
\* that the random draw replaces (dcpg_data.py:89-91)
CharToInt(ch) ==
    CASE ch = "A" -> 0
      [] ch = "T" -> 1
      [] ch = "G" -> 2
      [] ch = "C" -> 3
      [] OTHER -> 4

\* dna.char2int
Char2Int(str) == [i \in 1..Len(str) |-> CharToInt(str[i])]

\* Python's str[a:b]: a negative bound counts from the end, both are clipped
PyBound(n, a) == IF a < 0 THEN Max(n + a, 0) ELSE Min(a, n)

PySlice(str, a, b) == SubSeq(str, PyBound(Len(str), a) + 1, PyBound(Len(str), b))

\* k * 'N'
Ns(k) == [i \in 1..k |-> "N"]

\* dcpg_data.py:82: the part of the window that lies in the sequence
Slice(str, p, delta) == PySlice(str, Max(0, p - delta), Min(Len(str), p + delta + 1))

\* dcpg_data.py:84-85: N on the side where the window leaves the sequence
Padded(win, str, p, delta) ==
    Ns(Max(0, delta - p)) \o win \o Ns(Max(0, p + delta + 1 - Len(str)))

\* dcpg_data.py:78-87 for one position: the encoded row before the unknown
\* symbols are resolved, or the exception
EncodedRow(str, position, w, check) ==
    LET delta == w \div 2
        p == position - seq_index
        win == Slice(str, p, delta)
        padded == Padded(win, str, p, delta)
    IN IF check /\ PySlice(str, p, p + 2) # <<"C", "G">> THEN Raised("ValueError")
       ELSE IF Len(win) < w
       THEN (IF Len(padded) # w THEN Raised("AssertionError")    \* line 86
             ELSE Outcome("ok", Char2Int(padded)))
       ELSE IF Len(win) # w THEN Raised("ValueError")            \* line 87: shapes differ
       ELSE Outcome("ok", Char2Int(win))

\* dcpg_data.py:89-90: every unknown symbol is drawn from 0..3 on its own
Resolutions(row) ==
    {r \in [1..Len(row) -> 0..4] :
        \A j \in 1..Len(row) : IF row[j] = 4 THEN r[j] \in 0..3 ELSE r[j] = row[j]}

\* dcpg_data.py:91-94: the checks on the resolved matrix
FinalChecks(rows, w, check) ==
    LET delta == w \div 2
    IN IF \E i \in 1..Len(rows) : \E j \in 1..w : rows[i][j] >= 4
       THEN Raised("AssertionError")
       ELSE IF ~check THEN Outcome("ok", rows)
       ELSE IF \E i \in 1..Len(rows) : rows[i][delta + 1] # 3
       THEN Raised("AssertionError")
       ELSE IF delta + 2 > w THEN Raised("IndexError")   \* column delta + 1 of w columns
       ELSE IF \E i \in 1..Len(rows) : rows[i][delta + 2] # 2
       THEN Raised("AssertionError")
       ELSE Outcome("ok", rows)

OddLengths == {w \in 1..MaxWlen : w % 2 = 1}

WinInit ==
    /\ seq \in UNION {[1..n -> Alphabet] : n \in 1..MaxSeq}
    /\ wpos \in {<<q>> : q \in (seq_index - 2)..(MaxSeq + seq_index + 1)}
    /\ wlen \in OddLengths
    /\ cpg_sites \in BOOLEAN
    /\ seq_wins = Outcome("none", <<>>)

\* dcpg_data.py:60-95, for an array pos of one position
ExtractSeqWindows ==
    /\ seq_wins.status = "none"
    /\ LET row == EncodedRow(Upper(seq), wpos[1], wlen, cpg_sites)
       IN IF row.status # "ok" THEN seq_wins' = row
          ELSE \E r \in Resolutions(row.value) :
                  seq_wins' = FinalChecks(<<r>>, wlen, cpg_sites)
    /\ UNCHANGED <<readerVars, alignVars, covVars, mainVars, seq, wpos, wlen, cpg_sites>>

WinStart == WinInit /\ ReaderIdle /\ AlignIdle /\ CovIdle /\ MainIdle

WinNext == ExtractSeqWindows

WinSpec == WinStart /\ [][WinNext]_vars

\* 0-based index of the position in the sequence
P0 == wpos[1] - seq_index

InSequence == 0 <= P0 /\ P0 < Len(seq)

CheckPasses ==
    /\ P0 + 2 <= Len(seq)
    /\ UpperChar(seq[P0 + 1]) = "C" /\ UpperChar(seq[P0 + 2]) = "G"

\* the row has W known symbols, and the symbol at offset j from the position
\* sits at column W \div 2 + j (0-based) when it is a known base
WellShaped(row) ==
    /\ Len(row) = wlen
    /\ \A c \in 1..wlen : row[c] \in 0..3
    /\ \A j \in (0 - wlen \div 2)..(wlen \div 2) :
          LET i == P0 + j
          IN (0 <= i /\ i < Len(seq) /\ UpperChar(seq[i + 1]) # "N") =>
                row[wlen \div 2 + j + 1] = CharToInt(UpperChar(seq[i + 1]))

Called == seq_wins.status \notin {"none", "idle"}

\* C9: for every sequence, odd window length W and position of the sequence,
\* with the CpG check off or passing, extract_seq_windows returns a row of
\* exactly W symbols, padded at the boundaries, aligned, without unknowns.
C9_WindowShape ==
    (Called /\ InSequence /\ (cpg_sites => CheckPasses)) =>
        /\ seq_wins.status = "ok"
        /\ Len(seq_wins.value) = 1
        /\ WellShaped(seq_wins.value[1])

\* the same for window lengths of at least 3 when the CpG check is on
C9_WindowShapeFrom3 ==
    (Called /\ InSequence /\ (cpg_sites => (CheckPasses /\ wlen >= 3))) =>
        /\ seq_wins.status = "ok"
        /\ Len(seq_wins.value) = 1
        /\ WellShaped(seq_wins.value[1])

\* a window of 5 around the first base of a 3-base sequence: padded on both
\* sides
C9_Witness ==
    /\ seq_wins.status = "ok" /\ cpg_sites
    /\ wlen = 5 /\ Len(seq) = 3 /\ wpos = <<2>>
    /\ seq_wins.value[1][3] = 3 /\ seq_wins.value[1][4] = 2

\* ----------------------------------------------------------------- App.main
MaxChunk == 2

\* an optional command line value: given, or None
Given(v) == [given |-> TRUE, v |-> v]

NotGiven == [given |-> FALSE, v |-> <<>>]

\* the options main reads (dcpg_data.py:211-273); an empty list or a zero
\* is an option left out
MainOpts ==
    [cpg_profiles : {<<>>, <<"cellA">>, <<"cellA", "cellB">>},
     bulk_profiles : {<<>>, <<"bulk1">>},
     pos_file : BOOLEAN,
     dna_db : BOOLEAN,
     dna_wlen : {1, 2, 3},
     cpg_wlen : {0, 1, 2},
     cpg_stats : {NotGiven, Given(<<"mean">>), Given(<<"median">>)},
     min_cpg_cov : {Ratio(0, 1), Ratio(2, 1), Ratio(3, 4)},
     chunk_size : 1..MaxChunk]

StatNames == {"mean", "var", "entropy", "diff", "disp", "mode"}

\* dcpg_data.py:172-190; iterating over None raises TypeError
OutputStatsMetaByName(names) ==
    IF ~names.given THEN Raised("TypeError")
    ELSE IF \E i \in 1..Len(names.v) : names.v[i] \notin StatNames
    THEN Raised("ValueError")
    ELSE Outcome("ok", names.v)

Error(type, stage, msg) == [type |-> type, stage |-> stage, msg |-> msg]

\* dcpg_data.py:285-296: the exception the argument checks end in, if any.
\* `raise '...'` raises TypeError: a str is no exception.
CheckArguments(o) ==
    IF o.cpg_profiles = <<>> /\ o.bulk_profiles = <<>> /\ ~(o.pos_file \/ o.dna_db)
    THEN Error("ValueError", "check", "Position table and DNA database expected!")
    ELSE IF o.dna_wlen # 0 /\ o.dna_wlen % 2 = 0
    THEN Error("TypeError", "check", "exceptions must derive from BaseException")
    ELSE IF o.cpg_wlen # 0 /\ o.cpg_wlen % 2 # 0
    THEN Error("TypeError", "check", "exceptions must derive from BaseException")
    ELSE LET meta == OutputStatsMetaByName(o.cpg_stats)
         IN IF meta.status = "TypeError"
            THEN Error("TypeError", "check", "'NoneType' object is not iterable")
            ELSE IF meta.status = "ValueError"
            THEN Error("ValueError", "check", "Invalid statistic!")
            ELSE NoError

EmptyDict == <<>>

SetOf(a) == {a[i] : i \in 1..Len(a)}

\* a[idx] for a list of (1-based) indices
Take(a, idx) == [k \in 1..Len(idx) |-> a[idx[k]]]

\* slice(start, end) as the list of indices it selects
SliceIdx(start, end) == [k \in 1..(end - start) |-> start + k]

\* dcpg_data.py:193-200: index every array of the nested dict
SelectDict(d, idx) ==
    [key \in DOMAIN d |->
        IF key \in {"cpg", "bulk"}
        THEN [name \in DOMAIN d[key] |-> Take(d[key][name], idx)]
        ELSE Take(d[key], idx)]

\* one profile's table of a chromosome, from its column over the grid:
\* the positions it observed and their values
TablePos(col) == NonZero([i \in 1..Len(col) |-> col[i] # CPG_NAN])

TableValues(col) == Take(col, TablePos(col))

\* dcpg_data.py:121-130
MapCpgTables(cols, grid) ==
    [name \in DOMAIN cols |->
        MapValues(TableValues(cols[name]), TablePos(cols[name]), grid).value]

\* dcpg_data.py:347-348: np.vstack(columns).T
VStackT(columns, names, n) ==
    [i \in 1..n |-> [c \in 1..Len(names) |-> columns[names[c]][i]]]

\* dcpg_data.py:380
NbChunk(n, chunk_size) == (n + chunk_size - 1) \div chunk_size

\* dcpg_data.py:390: 'c%s_%06d-%06d.h5'
FileName(chromo, chunk_start, chunk_end) == <<chromo, chunk_start, chunk_end>>

MainInit ==
    /\ opts \in MainOpts
    /\ main_pc = "check"
    /\ main_err = NoError
    /\ reads = <<>>
    /\ chromos = <<>>
    /\ tables = <<>>
    /\ chromo_idx = 0
    /\ chromo_pos = <<>>
    /\ chromo_outputs = EmptyDict
    /\ chromo_dna = NotGiven
    /\ chunk = 0
    /\ chunk_file = <<>>
    /\ files = <<>>

otherVars == <<readerVars, alignVars, covVars, winVars>>

\* dcpg_data.py:285-296
MainCheck ==
    /\ main_pc = "check"
    /\ main_err' = CheckArguments(opts)
    /\ main_pc' = IF main_err'.type = "none" THEN "read" ELSE "error"
    /\ UNCHANGED <<otherVars, opts, reads, chromos, tables, chromo_idx,
                   chromo_pos, chromo_outputs, chromo_dna, chunk, chunk_file,
                   files>>

\* the rows of one chromosome in the input files: per profile its column
\* over the n positions of the grid (CPG_NAN: the profile has no row there),
\* and whether the reference has CG at each position.  Without a position
\* file the grid is the union of the profiles' positions.
Tables(o) ==
    {t \in UNION {[n : {n},
                   cols : [SetOf(o.cpg_profiles) -> [1..n -> {1, CPG_NAN}]],
                   cg : [1..n -> BOOLEAN]] : n \in 1..MaxSites} :
        /\ (~o.pos_file =>
              \A i \in 1..t.n : \E name \in DOMAIN t.cols : t.cols[name][i] # CPG_NAN)
        /\ (~o.dna_db => \A i \in 1..t.n : t.cg[i])}

\* dcpg_data.py:298-333: read the profiles and build the position table;
\* without a position file the positions come from outputs['cpg']
MainRead ==
    /\ main_pc = "read"
    /\ LET r1 == IF opts.cpg_profiles # <<>> THEN <<"cpg_profiles">> ELSE <<>>
           r2 == IF opts.bulk_profiles # <<>> THEN <<"bulk_profiles">> ELSE <<>>
           r3 == IF opts.pos_file THEN <<"pos_file">> ELSE <<>>
       IN /\ reads' = r1 \o r2 \o r3
          /\ IF ~opts.pos_file /\ opts.cpg_profiles = <<>>
             THEN /\ main_err' = Error("KeyError", "read", "cpg")
                  /\ main_pc' = "error"
                  /\ UNCHANGED <<chromos, tables, chromo_idx>>
             ELSE /\ chromos' \in {<<"1">>, <<"1", "2">>}
                  /\ tables' \in Tables(opts)
                  /\ chromo_idx' = 1
                  /\ main_pc' = "chromo"
                  /\ UNCHANGED main_err
    /\ UNCHANGED <<otherVars, opts, chromo_pos, chromo_outputs, chromo_dna,
                   chunk, chunk_file, files>>

\* the chromosome loop moves on (dcpg_data.py:336) or main returns (476-477)
NextChromo(i) == IF i < Len(chromos) THEN "chromo" ELSE "done"

\* dcpg_data.py:336-380: the chromosome's grid, the aligned profiles, the
\* coverage filter, the reference sequence
ChromoStart ==
    /\ main_pc = "chromo"
    /\ LET n == tables.n
           cols == tables.cols
           cg == tables.cg
       IN /\ LET grid == [i \in 1..n |-> i]
                 cpg == MapCpgTables(cols, grid)
                 o1 == IF opts.cpg_profiles # <<>>
                       THEN ("cpg" :> cpg) @@
                            ("cpg_mat" :> VStackT(cpg, opts.cpg_profiles, n))
                       ELSE EmptyDict
                 o2 == IF opts.bulk_profiles # <<>>
                       THEN o1 @@ ("bulk" :> [name \in SetOf(opts.bulk_profiles) |->
                                                 [i \in 1..n |-> 1]])
                       ELSE o1
                 filtered == "cpg_mat" \in DOMAIN o2 /\ opts.min_cpg_cov.num # 0
                 idx == IF filtered THEN CoverageFilter(o2["cpg_mat"], opts.min_cpg_cov)
                        ELSE Outcome("ok", [i \in 1..n |-> TRUE])
             IN IF idx.status # "ok"
                THEN /\ main_err' = Error("AssertionError", "chromo", "")
                     /\ main_pc' = "error"
                     /\ UNCHANGED <<chromo_idx, chromo_pos, chromo_outputs,
                                    chromo_dna, reads>>
                ELSE IF NbKept(idx.value) = 0
                THEN /\ main_pc' = NextChromo(chromo_idx)
                     /\ chromo_idx' = chromo_idx + 1
                     /\ UNCHANGED <<main_err, chromo_pos, chromo_outputs,
                                    chromo_dna, reads>>
                ELSE /\ chromo_pos' = Compress(grid, idx.value)
                     /\ chromo_outputs' = SelectDict(o2, NonZero(idx.value))
                     /\ chromo_dna' = IF opts.dna_db
                                      THEN Given(Compress(cg, idx.value))
                                      ELSE NotGiven
                     /\ reads' = IF opts.dna_db THEN Append(reads, "dna_db") ELSE reads
                     /\ main_pc' = "chunk"
                     /\ UNCHANGED <<main_err, chromo_idx>>
    /\ chunk' = 0
    /\ UNCHANGED <<otherVars, opts, chromos, tables, chunk_file, files>>

ChunkStart == chunk * opts.chunk_size

ChunkEnd == Min(Len(chromo_pos), ChunkStart + opts.chunk_size)

\* dcpg_data.py:381-433: create the chunk file and write the positions and
\* the outputs
ChunkOpen ==
    /\ main_pc = "chunk"
    /\ LET chromo == chromos[chromo_idx]
           chunk_idx == SliceIdx(ChunkStart, ChunkEnd)
           chunk_pos == Take(chromo_pos, chunk_idx)
           chunk_outputs == SelectDict(chromo_outputs, chunk_idx)
           filename == FileName(chromo, ChunkStart, ChunkEnd)
           d0 == (<<"chromo">> :> [i \in 1..Len(chunk_pos) |-> chromo]) @@
                 (<<"pos">> :> chunk_pos)
           d1 == IF "cpg" \in DOMAIN chunk_outputs
                 THEN [path \in {<<"outputs", "cpg", name>> :
                                   name \in DOMAIN chunk_outputs["cpg"]} |->
                          chunk_outputs["cpg"][path[3]]]
                      @@ [path \in {<<"outputs", "stats", name>> :
                                      name \in SetOf(OutputStatsMetaByName(opts.cpg_stats).value)} |->
                             [i \in 1..Len(chunk_pos) |-> path[3]]]
                 ELSE EmptyDict
           d2 == IF "bulk" \in DOMAIN chunk_outputs
                 THEN [path \in {<<"outputs", "bulk", name>> :
                                   name \in DOMAIN chunk_outputs["bulk"]} |->
                          chunk_outputs["bulk"][path[3]]]
                 ELSE EmptyDict
       IN /\ chunk_file' = filename
          /\ files' = (filename :> [open |-> TRUE, data |-> d0 @@ d1 @@ d2]) @@ files
    /\ main_pc' = "inputs"
    /\ UNCHANGED <<otherVars, opts, main_err, reads, chromos, tables, chromo_idx,
                   chromo_pos, chromo_outputs, chromo_dna, chunk>>

\* extract_seq_windows(chromo_dna, pos=chunk_pos, wlen) of dcpg_data.py:438:
\* ValueError at a position without CG (line 81), else the checks of lines
\* 91-94 on a matrix of wlen columns
DnaWindows(cg, w) ==
    IF \E i \in 1..Len(cg) : ~cg[i] THEN Raised("ValueError")
    ELSE FinalChecks([i \in 1..Len(cg) |-> [c \in 1..w |->
                         IF c = w \div 2 + 1 THEN 3 ELSE IF c = w \div 2 + 2 THEN 2 ELSE 0]],
                     w, TRUE)

\* dcpg_data.py:435-472: the DNA windows and the neighbour features
ChunkInputs ==
    /\ main_pc = "inputs"
    /\ LET chunk_idx == SliceIdx(ChunkStart, ChunkEnd)
           n == Len(chunk_idx)
           wins == IF chromo_dna.given
                   THEN DnaWindows(Take(chromo_dna.v, chunk_idx), opts.dna_wlen)
                   ELSE Outcome("ok", <<>>)
           d1 == IF chromo_dna.given
                 THEN (<<"inputs", "dna">> :> wins.value)
                 ELSE EmptyDict
           d2 == [path \in {<<"inputs", "cpg", name, kind>> :
                              name \in SetOf(opts.cpg_profiles), kind \in {"state", "dist"}} |->
                     [i \in 1..n |-> path[4]]]
           file == files[chunk_file]
       IN IF wins.status # "ok"
          THEN /\ main_err' = Error(wins.status, "chunk", "")
               /\ main_pc' = "error"
               /\ UNCHANGED files
          ELSE IF opts.cpg_wlen # 0 /\ opts.cpg_profiles = <<>>
          THEN /\ main_err' = Error("KeyError", "chunk", "cpg")
               /\ main_pc' = "error"
               /\ files' = [files EXCEPT ![chunk_file].data = d1 @@ @]
          ELSE /\ files' = [files EXCEPT ![chunk_file].data =
                               (IF opts.cpg_wlen # 0 THEN d2 ELSE EmptyDict) @@ d1 @@ @]
               /\ main_pc' = "close"
               /\ UNCHANGED main_err
    /\ UNCHANGED <<otherVars, opts, reads, chromos, tables, chromo_idx,
                   chromo_pos, chromo_outputs, chromo_dna, chunk, chunk_file>>

\* dcpg_data.py:474, then the next chunk, the next chromosome, or the end
ChunkClose ==
    /\ main_pc = "close"
    /\ files' = [files EXCEPT ![chunk_file].open = FALSE]
    /\ chunk' = chunk + 1
    /\ IF chunk + 1 < NbChunk(Len(chromo_pos), opts.chunk_size)
       THEN main_pc' = "chunk" /\ UNCHANGED chromo_idx
       ELSE main_pc' = NextChromo(chromo_idx) /\ chromo_idx' = chromo_idx + 1
    /\ UNCHANGED <<otherVars, opts, main_err, reads, chromos, tables, chromo_pos,
                   chromo_outputs, chromo_dna, chunk_file>>

MainStart == MainInit /\ ReaderIdle /\ AlignIdle /\ CovIdle /\ WinIdle

MainNext ==
    \/ MainCheck
    \/ MainRead
    \/ ChromoStart
    \/ ChunkOpen
    \/ ChunkInputs
    \/ ChunkClose

MainSpec == MainStart /\ [][MainNext]_vars

\* the data a finished chunk file of this run holds for its positions
Complete(file) ==
    /\ <<"chromo">> \in DOMAIN file.data /\ <<"pos">> \in DOMAIN file.data
    /\ (opts.dna_db => <<"inputs", "dna">> \in DOMAIN file.data)
    /\ \A path \in DOMAIN file.data : Len(file.data[path]) = Len(file.data[<<"pos">>])

\* C10: writing the chunk file is the last step of a chunk: when a validation
\* error aborts a chunk, no file of that chunk has been created or partly
\* written, and every chunk file written before is closed and unchanged.
C10_ChunkWriteLast ==
    (main_pc = "error" /\ main_err.stage = "chunk" /\ main_err.type = "ValueError") =>
        /\ FileName(chromos[chromo_idx], ChunkStart, ChunkEnd) \notin DOMAIN files
        /\ \A f \in DOMAIN files : ~files[f].open /\ Complete(files[f])

\* the part of C10 that holds: the files of the chunks before the aborted one
\* are closed and complete
C10_EarlierChunksClosed ==
    (main_pc = "error" /\ main_err.stage = "chunk") =>
        \A f \in DOMAIN files \ {chunk_file} : ~files[f].open /\ Complete(files[f])

\* ------------------------------------------------- configuration errors
\* the configuration errors the checks are there for: an invalid statistic
\* name, no input to take positions from, an even DNA window length, an odd
\* neighbour window length
InvalidStatistic(o) ==
    o.cpg_stats.given /\ \E i \in 1..Len(o.cpg_stats.v) : o.cpg_stats.v[i] \notin StatNames

NoPositionSource(o) == ~o.pos_file /\ o.cpg_profiles = <<>>

ConfigurationError(o) ==
    \/ InvalidStatistic(o)
    \/ NoPositionSource(o)
    \/ o.dna_wlen % 2 = 0
    \/ (o.cpg_wlen # 0 /\ o.cpg_wlen % 2 # 0)

\* the messages that name the option at fault
OptionMessages ==
    {"Position table and DNA database expected!", "--dna_wlen must be odd!",
     "--cpg_wlen must be even!", "Invalid statistic!"}

Checked == main_pc \notin {"idle", "check"}

NothingTouched == reads = <<>> /\ files = <<>>

\* C11: every configuration error makes main fail in its argument checks,
\* before anything is read and before any chunk file is created, with a
\* message that names the option at fault; a valid configuration, one that
\* asks for no statistics included, passes the checks.
C11_FailFast ==
    Checked =>
        IF ConfigurationError(opts)
        THEN /\ main_pc = "error" /\ main_err.stage = "check"
             /\ NothingTouched
             /\ main_err.msg \in OptionMessages
        ELSE main_err.stage # "check"

\* what the argument checks do guarantee: a failure in them leaves inputs and
\* outputs untouched, and the two ValueErrors carry their message
C11_CheckTouchesNothing ==
    (main_pc = "error" /\ main_err.stage = "check") =>
        /\ NothingTouched
        /\ (main_err.type = "ValueError" => main_err.msg \in OptionMessages)

\* ------------------------------------------------------- chunk partition
\* the tables have been read
Loaded ==
    \/ main_pc \in {"chromo", "chunk", "inputs", "close", "done"}
    \/ main_pc = "error" /\ main_err.stage \in {"chromo", "chunk"}

\* the number of profiles that observed grid position i
Observations(i) ==
    Cardinality({c \in 1..Len(opts.cpg_profiles) :
                    tables.cols[opts.cpg_profiles[c]][i] # CPG_NAN})

Filtering == opts.cpg_profiles # <<>> /\ opts.min_cpg_cov.num # 0

Survives(i) ==
    Filtering =>
        AtLeast(Observations(i), MinCov(opts.min_cpg_cov, Len(opts.cpg_profiles)))

\* the coverage-filtered position vector of a chromosome
Survivors == NonZero([i \in 1..tables.n |-> Survives(i)])

\* the index ranges [k * chunk_size, min(n, (k + 1) * chunk_size))
Ranges(n, size) ==
    {<<k * size, Min(n, (k + 1) * size)>> : k \in 0..((n + size - 1) \div size - 1)}

FilesOf(chromo) == {f \in DOMAIN files : f[1] = chromo}

\* a chunk file holds one of the ranges of the surviving positions, and each
\* of its arrays has as many rows as the chunk has positions
ChunkWellFormed(f) ==
    LET file == files[f]
        positions == file.data[<<"pos">>]
    IN /\ <<f[2], f[3]>> \in Ranges(Len(Survivors), opts.chunk_size)
       /\ f[2] < f[3] /\ f[3] - f[2] <= opts.chunk_size
       /\ positions = SubSeq(Survivors, f[2] + 1, f[3])
       /\ IsStrictlySorted(positions)
       /\ \A path \in DOMAIN file.data : Len(file.data[path]) = Len(positions)

\* the chromosomes main is through with
Finished == {chromos[j] : j \in 1..Min(chromo_idx - 1, Len(chromos))}

\* the files of a finished chromosome are its ranges, one file each, and
\* every surviving position is in exactly one of them
Partitioned(chromo) ==
    /\ {<<f[2], f[3]>> : f \in FilesOf(chromo)} = Ranges(Len(Survivors), opts.chunk_size)
    /\ \A i \in 1..Len(Survivors) :
          Cardinality({f \in FilesOf(chromo) :
                          Survivors[i] \in SetOf(files[f].data[<<"pos">>])}) = 1
    /\ \A f \in FilesOf(chromo) : ~files[f].open
    /\ (Survivors = <<>> => FilesOf(chromo) = {})

\* the chunking of the chromosomes handled so far
ChunksPartition ==
    /\ \A f \in DOMAIN files : ChunkWellFormed(f)
    /\ \A chromo \in Finished : Partitioned(chromo)
    /\ (main_pc = "done" => Finished = SetOf(chromos))

\* C12: for each chromosome the chunk files partition the coverage-filtered
\* positions into the consecutive ranges [k*chunk_size, min(n, (k+1)*chunk_size)):
\* every chunk is non-empty, has at most chunk_size ascending positions, every
\* surviving position is in exactly one chunk, every array of a chunk has the
\* chunk's row count; a chromosome without surviving positions emits no chunk
\* and is passed over, and the pass ends in done after the last chromosome.
C12_ChunkPartition ==
    Loaded => ChunksPartition /\ main_err.stage # "chromo"

\* the part of C12 that holds: the chunking itself, in every run
C12_PartitionOfSurvivors == Loaded => ChunksPartition

\* a run that chunked a filtered chromosome and went on to the end
C12_Chunked ==
    /\ main_pc = "done" /\ Filtering
    /\ Len(Survivors) < tables.n
    /\ Cardinality(DOMAIN files) >= 2

\* a chromosome without surviving positions was passed over
C12_Skipped ==
    /\ main_pc = "done" /\ Survivors = <<>> /\ files = <<>>

\* ------------------------------------------------- the reader's assertions
\* C13: the assertions reader makes after each container hold in every
\* reachable state, for every cap, batch size, list of container sizes and
\* shuffle order: the sample counter never exceeds the cap, and the cap is
\* reached only in the last container of the (shuffled) list, so the generator
\* never ends in an AssertionError.
C13_AssertionsHold ==
    /\ pc # "error"
    /\ (nb_sample # 0 /\ pc \in {"top", "batch", "yield", "close", "done"} =>
           nb_seen <= nb_sample)

\* the part of C13 that holds: the counter never exceeds the cap, and in
\* the order of the selected prefix the cap is reached in the last container
C13_UnshuffledAssertionsHold ==
    /\ (nb_sample # 0 /\ pc \in {"top", "batch", "yield", "close", "done", "error"} =>
           nb_seen <= nb_sample)
    /\ (~shuffle => pc # "error")

====
